---- MODULE Spec2Model ----
(***************************************************************************)
(* Model of the drone-azure-oidc plugin: Exec / VerifyEnv / WriteEnvToFile *)
(* (plugin/plugin.go) and ExchangeOIDCForAzureToken with its helpers       *)
(* (plugin/util.go).                                                       *)
(*                                                                         *)
(* Go strings are modelled as TLA+ strings (byte sequences): len is Len,   *)
(* s[i] is At(s, i), s[:n] is SubSeq(s, 1, n), concatenation is \o.        *)
(* A Go error is Nil (<<>>) or <<message>>; a *AzureTokenResponse is       *)
(* NilToken (<<>>) or <<record>>.                                          *)
(***************************************************************************)
EXTENDS Integers, Sequences, FiniteSets, TLC

VARIABLES
    entry,      \* which function the caller invoked: "Exec" or "Exchange"
    args,       \* plugin.Args as supplied by the caller
    provider,   \* how the token endpoint will behave for this run
    pc,         \* position of the run
    request,    \* the HTTP request handed to client.Do (<<>> before that)
    response,   \* the HTTP response received (<<>> before that)
    tokenResp,  \* first return value of ExchangeOIDCForAzureToken
    exchErr,    \* second return value of ExchangeOIDCForAzureToken
    err,        \* return value of Exec
    logs,       \* logrus lines produced so far, in order
    sink,       \* content of the file named by HARNESS_OUTPUT_SECRET_FILE
    calls,      \* how many times each function / network send has been entered
    probe,      \* input and results of the helper-function harness
    clock,      \* seconds elapsed since the run began
    ctx,        \* the caller's context and the one derived from it
    conc,       \* the parameters and locals of each of two concurrent calls
    wire        \* requests and responses in flight, by connection

vars == <<entry, args, provider, pc, request, response, tokenResp, exchErr,
          err, logs, sink, calls, probe, clock, ctx, conc, wire>>

timeVars == <<clock, ctx>>

concVars == <<conc, wire>>

runVars == <<entry, args, provider, pc, request, response, tokenResp,
             exchErr, err, logs, sink, calls, timeVars, concVars>>

-----------------------------------------------------------------------------
(* Bounds *)

\* identifier candidates have lengths GuidLen-LenSlack .. GuidLen+LenSlack
LenSlack == 1
\* description candidates have lengths 0 .. DescLimit+DescSlack
DescSlack == 3
\* caller deadlines lie within DeadlineSlack seconds of the call's own
\* timeout, and the clock runs that far past it
DeadlineSlack == 2

-----------------------------------------------------------------------------
(* Go values *)

Nil == <<>>
NilToken == <<>>
NoRequest == <<>>
NoResponse == <<>>

Errorf(msg) == <<msg>>

\* value[i] of a Go string, zero-based
At(s, i) == SubSeq(s, i + 1, i + 1)

\* strings.Contains
Contains(s, t) ==
    \E i \in 1..(Len(s) - Len(t) + 1) : SubSeq(s, i, i + Len(t) - 1) = t

\* strings.HasPrefix
HasPrefix(s, p) == Len(s) >= Len(p) /\ SubSeq(s, 1, Len(p)) = p

-----------------------------------------------------------------------------
(* plugin.go: validateGUID, VerifyEnv *)

GuidLen == 36

GuidFormatMsg == " must be a valid GUID format (xxxxxxxx-xxxx-xxxx-xxxx-xxxxxxxxxxxx)"

\* validateGUID with the first hyphen looked for one byte too far
validateGUID_OffByOne(value, fieldName) ==
    IF /\ Len(value) = GuidLen
       /\ At(value, 9) = "-"
       /\ At(value, 13) = "-"
       /\ At(value, 18) = "-"
       /\ At(value, 23) = "-"
    THEN Nil
    ELSE Errorf(fieldName \o " must be a valid GUID format (xxxxxxxx-xxxx-xxxx-xxxx-xxxxxxxxxxxx)")

validateGUID(value, fieldName) ==
    IF /\ Len(value) = GuidLen
       /\ At(value, 8) = "-"
       /\ At(value, 13) = "-"
       /\ At(value, 18) = "-"
       /\ At(value, 23) = "-"
    THEN Nil
    ELSE Errorf(fieldName \o GuidFormatMsg)

\* VerifyEnv without the shape check of the client id
VerifyEnv_SkipsClientShape(a) ==
    IF a.OIDCToken = "" THEN Errorf("oidc-token is not provided")
    ELSE IF a.TenantID = "" THEN Errorf("tenant-id is not provided")
    ELSE IF a.ClientID = "" THEN Errorf("client-id is not provided")
    ELSE validateGUID(a.TenantID, "tenant-id")

VerifyEnv(a) ==
    IF a.OIDCToken = "" THEN Errorf("oidc-token is not provided")
    ELSE IF a.TenantID = "" THEN Errorf("tenant-id is not provided")
    ELSE IF a.ClientID = "" THEN Errorf("client-id is not provided")
    ELSE IF validateGUID(a.TenantID, "tenant-id") # Nil
         THEN validateGUID(a.TenantID, "tenant-id")
    ELSE IF validateGUID(a.ClientID, "client-id") # Nil
         THEN validateGUID(a.ClientID, "client-id")
    ELSE Nil

-----------------------------------------------------------------------------
(* util.go: validateGUID, sanitizeErrorDescription *)

util_validateGUID(value, fieldName) ==
    IF value = "" THEN Errorf(fieldName \o " cannot be empty")
    ELSE IF /\ Len(value) = GuidLen
            /\ At(value, 8) = "-"
            /\ At(value, 13) = "-"
            /\ At(value, 18) = "-"
            /\ At(value, 23) = "-"
    THEN Nil
    ELSE Errorf(fieldName \o GuidFormatMsg)

DescLimit == 200

\* sanitizeErrorDescription cutting already at the limit
sanitizeErrorDescription_AtLimit(desc) ==
    IF Len(desc) >= DescLimit
    THEN SubSeq(desc, 1, DescLimit) \o "..."
    ELSE desc

sanitizeErrorDescription(desc) ==
    IF Len(desc) > DescLimit
    THEN SubSeq(desc, 1, DescLimit) \o "..."
    ELSE desc

-----------------------------------------------------------------------------
(* encoding/json as used by util.go.  A response body is modelled by its    *)
(* parse: top is "object" when the text is a JSON object, "array" when it   *)
(* is valid JSON of another kind, "truncated" or "html" when it is not      *)
(* JSON; obj maps each member name to [t |-> JSON type, v |-> its text].    *)

Has(obj, n) == n \in DOMAIN obj

\* a JSON value of type t cannot be stored in a Go field that wants `want`
Mismatch(obj, n, want) == Has(obj, n) /\ obj[n].t \notin {want, "null"}

StrField(obj, n) ==
    IF Has(obj, n) /\ obj[n].t = "string" THEN obj[n].v ELSE ""

Digit(c) ==
    CASE c = "0" -> 0 [] c = "1" -> 1 [] c = "2" -> 2 [] c = "3" -> 3
      [] c = "4" -> 4 [] c = "5" -> 5 [] c = "6" -> 6 [] c = "7" -> 7
      [] c = "8" -> 8 [] c = "9" -> 9

RECURSIVE ParseInt(_)
ParseInt(s) ==
    IF s = "" THEN 0
    ELSE 10 * ParseInt(SubSeq(s, 1, Len(s) - 1)) + Digit(At(s, Len(s) - 1))

IntField(obj, n) ==
    IF Has(obj, n) /\ obj[n].t = "number" THEN ParseInt(obj[n].v) ELSE 0

SyntaxError(top) ==
    IF top = "truncated" THEN "unexpected end of JSON input"
    ELSE "invalid character '<' looking for beginning of value"

TypeError(jsonType, target) ==
    "json: cannot unmarshal " \o jsonType \o " into Go " \o target

\* AzureTokenResponse: JSON member name -> wanted JSON type
TokenFields ==
    [token_type |-> "string", expires_in |-> "number",
     access_token |-> "string", refresh_token |-> "string"]

\* AzureErrorResponse: JSON member name -> wanted JSON type
ErrorFields ==
    [error |-> "string", error_description |-> "string",
     error_codes |-> "array", timestamp |-> "string",
     trace_id |-> "string", correlation_id |-> "string"]

ZeroToken ==
    [TokenType |-> "", ExpiresIn |-> 0, AccessToken |-> "", RefreshToken |-> ""]

ZeroAzureErr ==
    [Error |-> "", ErrorDescription |-> "", ErrorCodes |-> "",
     Timestamp |-> "", TraceID |-> "", CorrelationID |-> ""]

\* the error json.Unmarshal returns for `body` decoded into a struct with
\* members `fields`
UnmarshalErr(body, fields, goType) ==
    IF body.top \in {"truncated", "html"} THEN Errorf(SyntaxError(body.top))
    ELSE IF body.top # "object"
    THEN Errorf(TypeError(body.top, "value of type plugin." \o goType))
    ELSE LET bad == {n \in DOMAIN fields : Mismatch(body.obj, n, fields[n])}
         IN IF bad = {} THEN Nil
            ELSE LET n == CHOOSE m \in bad : TRUE
                 IN Errorf(TypeError(body.obj[n].t,
                                     "struct field " \o goType \o "." \o n))

\* json.Unmarshal(body, &tokenResp): the struct as left by the decoder, and
\* the error
UnmarshalToken(body) ==
    [val |-> IF body.top # "object" THEN ZeroToken
             ELSE [TokenType    |-> StrField(body.obj, "token_type"),
                   ExpiresIn    |-> IntField(body.obj, "expires_in"),
                   AccessToken  |-> StrField(body.obj, "access_token"),
                   RefreshToken |-> StrField(body.obj, "refresh_token")],
     err |-> UnmarshalErr(body, TokenFields, "AzureTokenResponse")]

\* json.Unmarshal(body, &azureErr)
UnmarshalAzureErr(body) ==
    [val |-> IF body.top # "object" THEN ZeroAzureErr
             ELSE [Error            |-> StrField(body.obj, "error"),
                   ErrorDescription |-> StrField(body.obj, "error_description"),
                   ErrorCodes       |-> IF Has(body.obj, "error_codes")
                                           /\ body.obj["error_codes"].t = "array"
                                        THEN body.obj["error_codes"].v ELSE "",
                   Timestamp        |-> StrField(body.obj, "timestamp"),
                   TraceID          |-> StrField(body.obj, "trace_id"),
                   CorrelationID    |-> StrField(body.obj, "correlation_id")],
     err |-> UnmarshalErr(body, ErrorFields, "AzureErrorResponse")]

-----------------------------------------------------------------------------
(* util.go: ExchangeOIDCForAzureToken *)

StatusOK == 200

\* resp.Status
StatusLine(code) ==
    CASE code = 200 -> "200 OK"
      [] code = 400 -> "400 Bad Request"
      [] code = 503 -> "503 Service Unavailable"

\* lines 42-48: the input validation
ExchangeValidate(tenantID, clientID) ==
    IF util_validateGUID(tenantID, "tenant_id") # Nil
    THEN util_validateGUID(tenantID, "tenant_id")
    ELSE util_validateGUID(clientID, "client_id")

\* lines 50-54
TokenEndpoint(tenantID) ==
    "https://login.microsoftonline.com/" \o tenantID \o "/oauth2/v2.0/token"

\* lines 60-79: the request handed to client.Do
BuildRequest(oidcToken, tenantID, clientID, scope) ==
    [method |-> "POST",
     url    |-> TokenEndpoint(tenantID),
     contentType |-> "application/x-www-form-urlencoded",
     form   |-> [client_id |-> clientID,
                 scope |-> scope,
                 client_assertion_type |->
                     "urn:ietf:params:oauth:client-assertion-type:jwt-bearer",
                 client_assertion |-> oidcToken,
                 grant_type |-> "client_credentials"]]

Line(level, msg) == [level |-> level, msg |-> msg]

\* lines 56-58
ExchangeDebugLines(tenantID, clientID, scope) ==
    << Line("debug", "token endpoint: " \o TokenEndpoint(tenantID)),
       Line("debug", "client_id: " \o clientID),
       Line("debug", "scope: " \o scope) >>

\* NonOKError without the test that the error code is non-empty
NonOKError_AnyCode(resp) ==
    LET parsed == UnmarshalAzureErr(resp.body)
        azureErr == parsed.val
    IN IF parsed.err = Nil
       THEN Errorf("token exchange failed: " \o azureErr.Error \o " - "
                   \o sanitizeErrorDescription(azureErr.ErrorDescription)
                   \o " (trace_id: " \o azureErr.TraceID \o ")")
       ELSE Errorf("token exchange failed: " \o StatusLine(resp.status))

\* lines 95-108: the error returned for a response whose status is not 200
NonOKError(resp) ==
    LET parsed == UnmarshalAzureErr(resp.body)
        azureErr == parsed.val
    IN IF parsed.err = Nil /\ azureErr.Error # ""
       THEN Errorf("token exchange failed: " \o azureErr.Error \o " - "
                   \o sanitizeErrorDescription(azureErr.ErrorDescription)
                   \o " (trace_id: " \o azureErr.TraceID \o ")")
       ELSE Errorf("token exchange failed: " \o StatusLine(resp.status))

\* DecodeOK returning the struct the decoder left behind, whatever it reported
DecodeOK_IgnoresError(resp) ==
    [token |-> <<UnmarshalToken(resp.body).val>>, err |-> Nil]

\* lines 110-115: the result for a response whose status is 200
DecodeOK(resp) ==
    LET parsed == UnmarshalToken(resp.body)
    IN IF parsed.err # Nil
       THEN [token |-> NilToken,
             err |-> Errorf("failed to decode response: " \o parsed.err[1])]
       ELSE [token |-> <<parsed.val>>, err |-> Nil]

\* lines 94-115: what the call returns once the body has been read
HandleResponse(resp) ==
    IF resp.status # StatusOK
    THEN [token |-> NilToken, err |-> NonOKError(resp)]
    ELSE DecodeOK(resp)

-----------------------------------------------------------------------------
(* The caller's inputs and the token endpoint's behaviours *)

GoodGuid == "12345678-1234-1234-1234-1234567890ab"

OIDCTokens == {"", "eyJ.tokA", "eyJ.tokB"}
TenantIDs == {"", "mytenant", GoodGuid, "12345678-1234-1234-123412-34567890ab"}
ClientIDs == {"", GoodGuid, "123456781234123412341234567890ab"}
Scopes == {"", "custom.scope/.default"}
AuthorityHosts ==
    {"", "https://login.microsoftonline.us", "https://login.microsoftonline.us/"}

ArgsSet ==
    [OIDCToken : OIDCTokens, TenantID : TenantIDs, ClientID : ClientIDs,
     Scope : Scopes, AuthorityHost : AuthorityHosts]

RECURSIVE Pad(_)
\* a string of n bytes
Pad(n) ==
    IF n = 0 THEN ""
    ELSE IF n = 1 THEN "d"
    ELSE Pad(n \div 2) \o Pad(n - (n \div 2))

\* stands in a body template for the client_assertion of the request received
Echo == "${client_assertion}"

JStr(v) == [t |-> "string", v |-> v]
JNum(v) == [t |-> "number", v |-> v]
JArr(v) == [t |-> "array", v |-> v]

Body(top, obj) == [top |-> top, obj |-> obj]

\* response bodies, each with a label naming what it is
BodyTemplates ==
    { [label |-> "token",
       body |-> Body("object", [token_type |-> JStr("Bearer"),
                                expires_in |-> JNum("3600"),
                                access_token |-> JStr("abc")])],
      [label |-> "tokenNoAccessToken",
       body |-> Body("object", [token_type |-> JStr("Bearer"),
                                expires_in |-> JNum("3600")])],
      [label |-> "tokenBadType",
       body |-> Body("object", [expires_in |-> JStr("3600"),
                                access_token |-> JStr("abc")])],
      [label |-> "truncated", body |-> Body("truncated", <<>>)],
      [label |-> "html", body |-> Body("html", <<>>)],
      [label |-> "array", body |-> Body("array", <<>>)],
      [label |-> "error",
       body |-> Body("object", [error |-> JStr("invalid_client"),
                                error_description |-> JStr("some long description"),
                                error_codes |-> JArr("[700016]")])],
      [label |-> "errorLong",
       body |-> Body("object", [error |-> JStr("invalid_request"),
                                error_description |-> JStr(Pad(DescLimit + 1)),
                                trace_id |-> JStr("trace-1")])],
      [label |-> "errorEmptyCode",
       body |-> Body("object", [error |-> JStr(""),
                                error_description |-> JStr("no code")])],
      [label |-> "errorBadType",
       body |-> Body("object", [error |-> JStr("invalid_client"),
                                error_description |-> JStr("codes as text"),
                                error_codes |-> JStr("700016")])],
      [label |-> "errorEchoDescription",
       body |-> Body("object", [error |-> JStr("invalid_client"),
                                error_description |-> JStr(Echo)])],
      [label |-> "errorEchoTrace",
       body |-> Body("object", [error |-> JStr("invalid_client"),
                                error_description |-> JStr("bad assertion"),
                                trace_id |-> JStr(Echo)])],
      [label |-> "errorEchoCode",
       body |-> Body("object", [error |-> JStr(Echo)])] }

Statuses == {200, 400, 503}

\* kind "respond": the endpoint answers with `status` and the body template;
\* kind "refuse": client.Do fails; kind "reset": the headers arrive and
\* reading the body fails
Providers ==
    { [kind |-> "respond", status |-> st, label |-> t.label, body |-> t.body] :
        st \in Statuses, t \in BodyTemplates }
    \cup
    { [kind |-> k, status |-> 200, label |-> "none", body |-> Body("html", <<>>)] :
        k \in {"refuse", "reset"} }

\* the body the endpoint sends in answer to request req
RenderBody(body, req) ==
    IF body.top # "object" THEN body
    ELSE [body EXCEPT !.obj =
            [n \in DOMAIN body.obj |->
                IF body.obj[n].v = Echo
                THEN JStr(req.form.client_assertion)
                ELSE body.obj[n]]]

ZeroCalls == [VerifyEnv |-> 0, Exchange |-> 0, Do |-> 0, WriteEnvToFile |-> 0]

NoProbe == [fn |-> "none", input |-> "", out |-> <<>>]

\* context.Background() as the caller's context.  kind, deadline and
\* cancelled describe the caller's context; own is the deadline that
\* context.WithTimeout adds once the call is entered, err is Err() of the
\* derived context ("" while it is not done)
Background ==
    [kind |-> "background", deadline |-> 0, cancelled |-> FALSE,
     entered |-> FALSE, own |-> 0, err |-> ""]

\* no concurrent calls running
NoCalls == <<>>

\* nothing in flight
NoWire == [requests |-> {}, responses |-> {}]

Init ==
    /\ entry \in {"Exec", "Exchange"}
    /\ args \in ArgsSet
    /\ provider \in Providers
    /\ pc = "start"
    /\ request = NoRequest
    /\ response = NoResponse
    /\ tokenResp = NilToken
    /\ exchErr = Nil
    /\ err = Nil
    /\ logs = <<>>
    /\ sink = ""
    /\ calls = ZeroCalls
    /\ probe = NoProbe
    /\ clock = 0
    /\ ctx = Background
    /\ conc = NoCalls
    /\ wire = NoWire

-----------------------------------------------------------------------------
(* plugin.go: Exec and WriteEnvToFile; util.go: ExchangeOIDCForAzureToken  *)

Bump(c, f) == [c EXCEPT ![f] = @ + 1]

\* plugin.go line 41
WrapExchange(e) == Errorf("failed to exchange OIDC token: " \o e[1])

\* ExchangeOIDCForAzureToken returns (tok, e) to its caller; under Exec the
\* caller is plugin.go lines 40-44
ReturnFromExchange(tok, e) ==
    /\ tokenResp' = tok
    /\ exchErr' = e
    /\ IF entry = "Exec"
       THEN IF e # Nil
            THEN err' = WrapExchange(e) /\ pc' = "done"
            ELSE err' = err /\ pc' = "write"
       ELSE err' = err /\ pc' = "done"

\* util.go lines 37-82: ExchangeOIDCForAzureToken up to client.Do, entered
\* with call counters c after the caller has logged `before`.  The fifth
\* string Exec passes (args.AuthorityHost) has no parameter to receive it.
EnterExchange(before, c) ==
    LET verr == ExchangeValidate(args.TenantID, args.ClientID)
    IN IF verr # Nil
       THEN /\ ReturnFromExchange(NilToken, verr)
            /\ logs' = logs \o before
            /\ calls' = Bump(c, "Exchange")
            /\ UNCHANGED <<request, response, sink>>
       ELSE /\ request' = BuildRequest(args.OIDCToken, args.TenantID,
                                       args.ClientID, args.Scope)
            /\ logs' = logs \o before
                       \o ExchangeDebugLines(args.TenantID, args.ClientID,
                                             args.Scope)
            /\ calls' = Bump(Bump(c, "Exchange"), "Do")
            /\ pc' = "inflight"
            /\ UNCHANGED <<response, tokenResp, exchErr, err, sink>>

\* plugin.go lines 25-39: Exec from its entry to the point where the
\* exchange waits for the endpoint
ExecStart ==
    /\ pc = "start"
    /\ entry = "Exec"
    /\ IF VerifyEnv(args) # Nil
       THEN /\ err' = VerifyEnv(args)
            /\ pc' = "done"
            /\ calls' = Bump(calls, "VerifyEnv")
            /\ UNCHANGED <<request, response, tokenResp, exchErr, logs, sink>>
       ELSE EnterExchange(
                <<Line("info", "exchanging OIDC token for Azure AD access token")>>,
                Bump(calls, "VerifyEnv"))
    /\ UNCHANGED <<entry, args, provider, probe, timeVars, concVars>>

\* a direct call of ExchangeOIDCForAzureToken, as the tests make
ExchangeStart ==
    /\ pc = "start"
    /\ entry = "Exchange"
    /\ EnterExchange(<<>>, calls)
    /\ UNCHANGED <<entry, args, provider, probe, timeVars, concVars>>

\* util.go lines 82-85: client.Do fails
DoFails ==
    /\ pc = "inflight"
    /\ provider.kind = "refuse"
    /\ ReturnFromExchange(NilToken,
           Errorf("failed to exchange token: Post \"" \o request.url
                  \o "\": dial tcp: connect: connection refused"))
    /\ UNCHANGED <<entry, args, provider, request, response, logs, sink,
                   calls, probe, timeVars, concVars>>

\* util.go lines 89-92: the headers arrived and io.ReadAll fails
ReadFails ==
    /\ pc = "inflight"
    /\ provider.kind = "reset"
    /\ response' = [status |-> provider.status, body |-> Body("unread", <<>>)]
    /\ ReturnFromExchange(NilToken,
           Errorf("failed to read response body: unexpected EOF"))
    /\ UNCHANGED <<entry, args, provider, request, logs, sink, calls, probe, timeVars, concVars>>

\* util.go lines 82-115: the endpoint answers and the body is read
Respond ==
    /\ pc = "inflight"
    /\ provider.kind = "respond"
    /\ LET resp == [status |-> provider.status,
                    body |-> RenderBody(provider.body, request)]
           r == HandleResponse(resp)
       IN /\ response' = resp
          /\ ReturnFromExchange(r.token, r.err)
    /\ UNCHANGED <<entry, args, provider, request, logs, sink, calls, probe, timeVars, concVars>>

\* plugin.go line 93: the text WriteEnvToFile appends
EnvLine(key, value) == key \o "=" \o value \o "\n"

\* plugin.go lines 83-90 under Exec line 44: os.OpenFile fails
WriteOpenFails ==
    /\ pc = "write"
    /\ err' = Errorf("failed to open output file: open : no such file or directory")
    /\ calls' = Bump(calls, "WriteEnvToFile")
    /\ pc' = "done"
    /\ UNCHANGED <<entry, args, provider, request, response, tokenResp,
                   exchErr, logs, sink, probe, timeVars, concVars>>

\* plugin.go lines 93-96 under Exec line 44: Fprintf fails after n bytes
WriteFails ==
    /\ pc = "write"
    /\ \E n \in 0..(Len(EnvLine("AZURE_ACCESS_TOKEN", tokenResp[1].AccessToken)) - 1) :
          sink' = sink \o SubSeq(EnvLine("AZURE_ACCESS_TOKEN",
                                         tokenResp[1].AccessToken), 1, n)
    /\ err' = Errorf("failed to write to env: write: no space left on device")
    /\ calls' = Bump(calls, "WriteEnvToFile")
    /\ pc' = "done"
    /\ UNCHANGED <<entry, args, provider, request, response, tokenResp,
                   exchErr, logs, probe, timeVars, concVars>>

\* plugin.go lines 44-51: WriteEnvToFile succeeds and Exec returns nil
WriteSucceeds ==
    /\ pc = "write"
    /\ sink' = sink \o EnvLine("AZURE_ACCESS_TOKEN", tokenResp[1].AccessToken)
    /\ logs' = logs \o
          << Line("info", "Azure access token retrieved successfully"),
             Line("debug", "token will expire in "
                           \o ToString(tokenResp[1].ExpiresIn) \o " seconds") >>
    /\ err' = Nil
    /\ calls' = Bump(calls, "WriteEnvToFile")
    /\ pc' = "done"
    /\ UNCHANGED <<entry, args, provider, request, response, tokenResp,
                   exchErr, probe, timeVars, concVars>>

Next ==
    \/ ExecStart
    \/ ExchangeStart
    \/ DoFails
    \/ ReadFails
    \/ Respond
    \/ WriteOpenFails
    \/ WriteFails
    \/ WriteSucceeds

Spec == Init /\ [][Next]_vars

-----------------------------------------------------------------------------
(* The helper functions called on their own, as plugin_test.go calls       *)
(* validateGUID: probe.input is the argument, probe.out maps the name of   *)
(* each function already applied to what it returned.                      *)

RECURSIVE Bytes(_, _, _, _)
\* the bytes at zero-based positions lo..hi of the string that has "-" at
\* the positions in hy and at every k-th byte (k > 0), and "x" elsewhere
Bytes(lo, hi, hy, k) ==
    IF lo > hi THEN ""
    ELSE IF lo = hi
    THEN (IF lo \in hy \/ (k > 0 /\ (lo + 1) % k = 0) THEN "-" ELSE "x")
    ELSE Bytes(lo, (lo + hi) \div 2, hy, k)
         \o Bytes(((lo + hi) \div 2) + 1, hi, hy, k)

\* the n-byte string with "-" at the zero-based positions in hy, "x" elsewhere
Fill(n, hy) == Bytes(0, n - 1, hy, 0)

\* the n-byte string whose every k-th byte is "-", the others "x"
Pattern(n, k) == Bytes(0, n - 1, {}, k)

HyphenPositions == {8, 9, 13, 18, 23, 24}

GuidInputs ==
    { Fill(n, hy) : n \in {0, 4} \cup ((GuidLen - LenSlack)..(GuidLen + LenSlack)),
                    hy \in SUBSET HyphenPositions }
    \cup TenantIDs \cup ClientIDs

DescInputs ==
    { Pattern(n, k) : n \in {0, 1} \cup ((DescLimit - DescSlack)..(DescLimit + DescSlack)),
                      k \in {1, 2, 3, 7} }

Applied(fn) == fn \in DOMAIN probe.out

Record(fn, result) ==
    probe' = [probe EXCEPT !.out = (fn :> result) @@ probe.out]

InitHelpers ==
    /\ entry = "none"
    /\ args = [OIDCToken |-> "", TenantID |-> "", ClientID |-> "",
               Scope |-> "", AuthorityHost |-> ""]
    /\ provider = CHOOSE p \in Providers : p.kind = "refuse"
    /\ pc = "helpers"
    /\ request = NoRequest
    /\ response = NoResponse
    /\ tokenResp = NilToken
    /\ exchErr = Nil
    /\ err = Nil
    /\ logs = <<>>
    /\ sink = ""
    /\ calls = ZeroCalls
    /\ clock = 0
    /\ ctx = Background
    /\ conc = NoCalls
    /\ wire = NoWire
    /\ \/ probe \in [fn : {"validateGUID"}, input : GuidInputs, out : {<<>>}]
       \/ probe \in [fn : {"sanitizeErrorDescription"}, input : DescInputs,
                     out : {<<>>}]

\* plugin_test.go lines 81-88: plugin.go's validateGUID(tt.value, "field")
CallValidateGUID ==
    /\ pc = "helpers"
    /\ probe.fn = "validateGUID"
    /\ ~Applied("plugin")
    /\ Record("plugin", validateGUID(probe.input, "field"))
    /\ UNCHANGED runVars

\* util.go's validateGUID on the same value
CallUtilValidateGUID ==
    /\ pc = "helpers"
    /\ probe.fn = "validateGUID"
    /\ ~Applied("util")
    /\ Record("util", util_validateGUID(probe.input, "field"))
    /\ UNCHANGED runVars

\* util.go line 102: sanitizeErrorDescription(azureErr.ErrorDescription)
CallSanitize ==
    /\ pc = "helpers"
    /\ probe.fn = "sanitizeErrorDescription"
    /\ ~Applied("sanitized")
    /\ Record("sanitized", sanitizeErrorDescription(probe.input))
    /\ UNCHANGED runVars

NextHelpers ==
    \/ CallValidateGUID
    \/ CallUtilValidateGUID
    \/ CallSanitize

SpecHelpers == InitHelpers /\ [][NextHelpers]_vars

-----------------------------------------------------------------------------
(* util.go lines 37-92 under a clock: a direct call whose endpoint may be   *)
(* slow or silent, and whose caller may pass a context with a deadline or   *)
(* cancel it.  pc is "inflight" while client.Do waits for the response      *)
(* headers and "reading" while io.ReadAll waits for the body.               *)

\* util.go line 39: 30*time.Second, in seconds
Timeout == 30

CallerContexts ==
    { Background, [Background EXCEPT !.kind = "cancellable"] }
    \cup { [Background EXCEPT !.kind = "deadline", !.deadline = d] :
             d \in {0} \cup ((Timeout - DeadlineSlack)..(Timeout + DeadlineSlack)) }

\* the deadline of the derived context
EffectiveDeadline(c) ==
    IF c.kind = "deadline" /\ c.deadline < c.own THEN c.deadline ELSE c.own

\* util.go line 39: context.WithTimeout(ctx, 30*time.Second) called at `now`
WithTimeout(c, now) ==
    LET d == [c EXCEPT !.entered = TRUE, !.own = now + Timeout]
    IN [d EXCEPT !.err =
            IF c.cancelled THEN "context canceled"
            ELSE IF now >= EffectiveDeadline(d) THEN "context deadline exceeded"
            ELSE ""]

\* the request never learns that a context is done
RequestDone_NoContext == FALSE

\* util.go lines 69-74: the request carries the derived context, so client.Do
\* and the body's Read give up once that context is done
RequestDone == ctx.err # ""

TimedProviders ==
    { p \in Providers : p.label \in {"token", "error", "none"}
                        /\ (p.label = "error" <=> p.status = 400) }
    \cup
    { [kind |-> k, status |-> 200, label |-> "none", body |-> Body("html", <<>>)] :
        k \in {"hang", "stall"} }

InitTimed ==
    /\ entry = "Exchange"
    /\ args \in { a \in ArgsSet : /\ a.OIDCToken = "eyJ.tokA"
                                  /\ a.TenantID \in {GoodGuid, "mytenant"}
                                  /\ a.ClientID = GoodGuid
                                  /\ a.Scope = "" /\ a.AuthorityHost = "" }
    /\ provider \in TimedProviders
    /\ pc = "start"
    /\ request = NoRequest
    /\ response = NoResponse
    /\ tokenResp = NilToken
    /\ exchErr = Nil
    /\ err = Nil
    /\ logs = <<>>
    /\ sink = ""
    /\ calls = ZeroCalls
    /\ probe = NoProbe
    /\ clock = 0
    /\ ctx \in CallerContexts
    /\ conc = NoCalls
    /\ wire = NoWire

\* util.go lines 37-82: the call is entered, derives its context and reaches
\* client.Do (or returns the validation error)
TimedStart ==
    /\ pc = "start"
    /\ EnterExchange(<<>>, calls)
    /\ ctx' = WithTimeout(ctx, clock)
    /\ UNCHANGED <<entry, args, provider, probe, clock, concVars>>

\* a second passes while the call is blocked; the derived context expires
\* when its deadline is reached
Tick ==
    /\ pc \in {"inflight", "reading"}
    /\ clock < Timeout + DeadlineSlack
    /\ clock' = clock + 1
    /\ ctx' = IF ctx.err = "" /\ clock + 1 >= EffectiveDeadline(ctx)
              THEN [ctx EXCEPT !.err = "context deadline exceeded"]
              ELSE ctx
    /\ UNCHANGED <<entry, args, provider, pc, request, response, tokenResp,
                   exchErr, err, logs, sink, calls, probe, concVars>>

\* the caller cancels the context it passed
CallerCancels ==
    /\ pc # "done"
    /\ ctx.kind = "cancellable"
    /\ ~ctx.cancelled
    /\ ctx' = [ctx EXCEPT !.cancelled = TRUE,
                          !.err = IF ctx.entered /\ ctx.err = ""
                                  THEN "context canceled" ELSE @]
    /\ UNCHANGED <<entry, args, provider, pc, request, response, tokenResp,
                   exchErr, err, logs, sink, calls, probe, clock, concVars>>

\* util.go lines 82-85: client.Do returns because the context is done
DoContextDone ==
    /\ pc = "inflight"
    /\ RequestDone
    /\ ReturnFromExchange(NilToken,
           Errorf("failed to exchange token: Post \"" \o request.url
                  \o "\": " \o ctx.err))
    /\ UNCHANGED <<entry, args, provider, request, response, logs, sink,
                   calls, probe, timeVars, concVars>>

\* util.go line 82: client.Do returns the response once the headers are in
HeadersArrive ==
    /\ pc = "inflight"
    /\ provider.kind \in {"respond", "reset", "stall"}
    /\ response' = [status |-> provider.status, body |-> Body("unread", <<>>)]
    /\ pc' = "reading"
    /\ UNCHANGED <<entry, args, provider, request, tokenResp, exchErr, err,
                   logs, sink, calls, probe, timeVars, concVars>>

\* util.go lines 89-92: io.ReadAll returns because the context is done
ReadContextDone ==
    /\ pc = "reading"
    /\ RequestDone
    /\ ReturnFromExchange(NilToken,
           Errorf("failed to read response body: " \o ctx.err))
    /\ UNCHANGED <<entry, args, provider, request, response, logs, sink,
                   calls, probe, timeVars, concVars>>

\* util.go lines 89-92: io.ReadAll fails because the connection broke
ReadBreaks ==
    /\ pc = "reading"
    /\ provider.kind = "reset"
    /\ ReturnFromExchange(NilToken,
           Errorf("failed to read response body: unexpected EOF"))
    /\ UNCHANGED <<entry, args, provider, request, response, logs, sink,
                   calls, probe, timeVars, concVars>>

\* util.go lines 89-115: the whole body is read and the call returns
BodyArrives ==
    /\ pc = "reading"
    /\ provider.kind = "respond"
    /\ LET resp == [status |-> provider.status,
                    body |-> RenderBody(provider.body, request)]
           r == HandleResponse(resp)
       IN /\ response' = resp
          /\ ReturnFromExchange(r.token, r.err)
    /\ UNCHANGED <<entry, args, provider, request, logs, sink, calls, probe,
                   timeVars, concVars>>

NextTimed ==
    \/ TimedStart
    \/ Tick
    \/ CallerCancels
    \/ DoFails
    \/ DoContextDone
    \/ HeadersArrive
    \/ ReadContextDone
    \/ ReadBreaks
    \/ BodyArrives

\* the goroutine of the call runs, time passes, and a wait on a context
\* that is done ends; nothing is assumed of the endpoint or of the caller
SpecTimed ==
    /\ InitTimed
    /\ [][NextTimed]_vars
    /\ WF_vars(TimedStart)
    /\ WF_vars(Tick)
    /\ WF_vars(DoContextDone)
    /\ WF_vars(ReadContextDone)

-----------------------------------------------------------------------------
(* Two calls of ExchangeOIDCForAzureToken running concurrently.  conc[i]   *)
(* holds the parameters and locals of call i (util.go declares no          *)
(* package-level variable); wire holds what is in flight, each message on  *)
(* the connection of the call that sent the request; logs is the logrus    *)
(* output both calls write to.                                             *)

CallIds == {"A", "B"}

OtherGuid == "aaaaaaaa-bbbb-cccc-dddd-eeeeeeeeeeee"

CallParams ==
    [oidcToken : {"eyJ.tokA", "eyJ.tokB"},
     tenantID : {GoodGuid, OtherGuid, "mytenant"},
     clientID : {GoodGuid, OtherGuid},
     scope : {"custom.scope/.default"}]

FreshCall(a) ==
    [args |-> a, pc |-> "start", request |-> NoRequest,
     response |-> NoResponse, tokenResp |-> NilToken, exchErr |-> Nil]

\* every call reads the parameters of call "A"
Param_Shared(i) == conc["A"].args

\* util.go line 37: the parameters of call i
Param(i) == conc[i].args

\* what the endpoint answers to request req: a token issued for the client
\* and tenant of the request, or a rejection naming them
Answers(req) ==
    { [status |-> 200,
       body |-> Body("object",
                     [token_type |-> JStr("Bearer"),
                      expires_in |-> JNum("3600"),
                      access_token |-> JStr(req.form.client_id \o "@" \o req.url)])],
      [status |-> 400,
       body |-> Body("object",
                     [error |-> JStr("invalid_client"),
                      error_description |-> JStr(req.form.client_id \o "@" \o req.url)])] }

InitConcurrent ==
    /\ entry = "Exchange"
    /\ args = [OIDCToken |-> "", TenantID |-> "", ClientID |-> "",
               Scope |-> "", AuthorityHost |-> ""]
    /\ provider = CHOOSE p \in Providers : p.kind = "respond" /\ p.label = "token"
                                           /\ p.status = 200
    /\ pc = "concurrent"
    /\ request = NoRequest
    /\ response = NoResponse
    /\ tokenResp = NilToken
    /\ exchErr = Nil
    /\ err = Nil
    /\ logs = <<>>
    /\ sink = ""
    /\ calls = ZeroCalls
    /\ probe = NoProbe
    /\ clock = 0
    /\ ctx = Background
    /\ \E a \in CallParams, b \in CallParams :
          /\ <<a.tenantID, a.clientID>> # <<b.tenantID, b.clientID>>
          /\ conc = [i \in CallIds |-> FreshCall(IF i = "A" THEN a ELSE b)]
    /\ wire = NoWire

ConcFrame ==
    UNCHANGED <<entry, args, provider, pc, request, response, tokenResp,
                exchErr, err, sink, calls, probe, timeVars>>

\* util.go lines 37-79: call i validates its parameters, logs and builds its
\* request
ConcPrepare(i) ==
    /\ conc[i].pc = "start"
    /\ LET a == Param(i)
           verr == ExchangeValidate(a.tenantID, a.clientID)
       IN IF verr # Nil
          THEN /\ conc' = [conc EXCEPT ![i].exchErr = verr, ![i].pc = "done"]
               /\ logs' = logs
          ELSE /\ conc' = [conc EXCEPT
                              ![i].request = BuildRequest(a.oidcToken, a.tenantID,
                                                          a.clientID, a.scope),
                              ![i].pc = "prepared"]
               /\ logs' = logs \o ExchangeDebugLines(a.tenantID, a.clientID,
                                                     a.scope)
    /\ wire' = wire
    /\ ConcFrame

\* util.go lines 81-82: call i hands its request to client.Do
ConcSend(i) ==
    /\ conc[i].pc = "prepared"
    /\ wire' = [wire EXCEPT !.requests =
                   @ \cup {[conn |-> i, req |-> conc[i].request]}]
    /\ conc' = [conc EXCEPT ![i].pc = "inflight"]
    /\ logs' = logs
    /\ ConcFrame

\* the endpoint answers one of the requests it has received, on the
\* connection the request came in on
Serve ==
    /\ \E m \in wire.requests : \E r \in Answers(m.req) :
          wire' = [requests |-> wire.requests \ {m},
                   responses |-> wire.responses \cup {[conn |-> m.conn, resp |-> r]}]
    /\ UNCHANGED <<conc, logs>>
    /\ ConcFrame

\* util.go lines 82-115: call i reads the response on its connection and
\* returns
ConcReceive(i) ==
    /\ conc[i].pc = "inflight"
    /\ \E m \in wire.responses :
          /\ m.conn = i
          /\ wire' = [wire EXCEPT !.responses = @ \ {m}]
          /\ conc' = [conc EXCEPT ![i].response = m.resp,
                                  ![i].tokenResp = HandleResponse(m.resp).token,
                                  ![i].exchErr = HandleResponse(m.resp).err,
                                  ![i].pc = "done"]
    /\ logs' = logs
    /\ ConcFrame

NextConcurrent ==
    \/ \E i \in CallIds : ConcPrepare(i)
    \/ \E i \in CallIds : ConcSend(i)
    \/ Serve
    \/ \E i \in CallIds : ConcReceive(i)

SpecConcurrent == InitConcurrent /\ [][NextConcurrent]_vars

-----------------------------------------------------------------------------
(* Properties *)

\* the identifier shape of the specification: 36 bytes with hyphens at the
\* zero-based positions 8, 13, 18 and 23
ShapeOK(v) ==
    Len(v) = 36 /\ \A i \in {8, 13, 18, 23} : SubSeq(v, i + 1, i + 1) = "-"

\* the arguments pass validation as the specification describes it
WellFormedArgs(a) ==
    /\ a.OIDCToken # "" /\ a.TenantID # "" /\ a.ClientID # ""
    /\ ShapeOK(a.TenantID) /\ ShapeOK(a.ClientID)

\* the validation error the specification names for arguments a
IsValidationError(e, a) ==
    /\ e # Nil
    /\ IF a.OIDCToken = "" \/ a.TenantID = "" \/ a.ClientID = ""
       THEN Contains(e[1], "is not provided")
       ELSE Contains(e[1], "must be a valid GUID format")

Messages == {m[1] : m \in {err, exchErr} \ {Nil}}
                \cup {logs[i].msg : i \in 1..Len(logs)}

C2_NoWriteOnFailure ==
    /\ (pc = "done" /\ err # Nil /\ calls.WriteEnvToFile = 0) => sink = ""
    /\ (sink # "" \/ calls.WriteEnvToFile > 0) => tokenResp # NilToken
    /\ ~Contains(sink, "AZURE_ACCESS_TOKEN=\n")

C4_ScopeDefault ==
    request # NoRequest =>
        request.form.scope =
            IF args.Scope = "" THEN "https://management.azure.com/.default"
            ELSE args.Scope

\* the authority host the specification resolves h to
ResolvedHost(h) ==
    IF h = "" THEN "https://login.microsoftonline.com"
    ELSE IF SubSeq(h, Len(h), Len(h)) = "/" THEN SubSeq(h, 1, Len(h) - 1)
    ELSE h

\* C5: the request is posted to {host}/{tenant_id}/oauth2/v2.0/token, host
\* being the default when the caller's authority host is empty and the
\* caller's host without its trailing slash otherwise.
C5_Endpoint ==
    request # NoRequest =>
        request.url = ResolvedHost(args.AuthorityHost) \o "/" \o args.TenantID
                      \o "/oauth2/v2.0/token"

\* C6: a direct call with a non-empty tenant_id, a GUID-shaped client_id and
\* an endpoint that answers 200 with the well-formed token body returns no
\* error and the token with access_token "abc" and expires_in 3600.
C6_Success ==
    ( /\ entry = "Exchange" /\ pc = "done"
      /\ args.TenantID # "" /\ ShapeOK(args.ClientID)
      /\ provider.kind = "respond" /\ provider.status = 200
      /\ provider.label = "token" ) =>
        /\ exchErr = Nil
        /\ tokenResp # NilToken
        /\ tokenResp[1].AccessToken = "abc"
        /\ tokenResp[1].ExpiresIn = 3600

\* the body templates that are not a token response: not JSON, JSON of
\* another kind than an object, or a member of the wrong JSON type
NotATokenBody == {"truncated", "html", "array", "tokenBadType"}

\* C7: when the endpoint answers 200 with a body that cannot be parsed as the
\* token response, the exchange returns the error "failed to decode
\* response: ..." and a nil token response.
C7_DecodeError ==
    ( /\ response # NoResponse /\ provider.kind = "respond"
      /\ response.status = 200 /\ provider.label \in NotATokenBody ) =>
        /\ pc = "done"
        /\ tokenResp = NilToken
        /\ exchErr # Nil
        /\ HasPrefix(exchErr[1], "failed to decode response: ")
        /\ calls.WriteEnvToFile = 0

C7_Witness ==
    /\ pc = "done" /\ response # NoResponse
    /\ provider.kind = "respond" /\ provider.status = 200
    /\ provider.label = "tokenBadType"
    /\ tokenResp = NilToken /\ exchErr # Nil

\* the body received parses as a provider error with a non-empty error code
StructuredError(label, body) ==
    /\ label \notin {"truncated", "html", "array", "errorBadType"}
    /\ "error" \in DOMAIN body.obj
    /\ body.obj["error"].v # ""

MemberText(body, n) == IF n \in DOMAIN body.obj THEN body.obj[n].v ELSE ""

\* the first 200 bytes of d
Cut200(d) == IF Len(d) > 200 THEN SubSeq(d, 1, 200) ELSE d

\* C8: for every answer whose status is not 200 the exchange returns an error
\* and no token; the error carries the provider's error code and truncated
\* description when the body parses with a non-empty code, and only the HTTP
\* status line otherwise.
C8_NonOK ==
    ( /\ response # NoResponse /\ provider.kind = "respond"
      /\ response.status # 200 ) =>
        /\ pc = "done"
        /\ tokenResp = NilToken
        /\ exchErr # Nil
        /\ IF StructuredError(provider.label, response.body)
           THEN HasPrefix(exchErr[1],
                    "token exchange failed: "
                    \o MemberText(response.body, "error") \o " - "
                    \o Cut200(MemberText(response.body, "error_description")))
           ELSE exchErr[1] = "token exchange failed: " \o StatusLine(response.status)

C8_Witness ==
    /\ pc = "done" /\ provider.kind = "respond"
    /\ provider.status = 400 /\ provider.label = "errorEmptyCode"
    /\ exchErr = <<"token exchange failed: 400 Bad Request">>

\* C9 as stated: the exposed description is at most 200 characters long, and
\* a description of 200 characters or fewer is passed through unchanged.
C9_AtMost200 ==
    Applied("sanitized") =>
        /\ Len(probe.out["sanitized"]) <= 200
        /\ Len(probe.input) <= 200 => probe.out["sanitized"] = probe.input

\* C9 as amended: the exposed description is at most 203 bytes long: a
\* description of more than 200 bytes is cut to its first 200 bytes followed
\* by "...", and one of 200 bytes or fewer is passed through unchanged.
C9_AtMost203 ==
    Applied("sanitized") =>
        /\ Len(probe.out["sanitized"]) <= 203
        /\ Len(probe.input) <= 200 => probe.out["sanitized"] = probe.input
        /\ Len(probe.input) > 200 =>
              /\ Len(probe.out["sanitized"]) = 203
              /\ HasPrefix(probe.input, SubSeq(probe.out["sanitized"], 1, 200))
              /\ SubSeq(probe.out["sanitized"], 201, 203) = "..."

C9_Witness ==
    /\ Applied("sanitized")
    /\ Len(probe.input) = 201
    /\ Len(probe.out["sanitized"]) = 203

\* C10: no error message and no log line contains the submitted oidc_token or
\* the access token obtained, whatever the endpoint answers.
C10_NoSecrets ==
    /\ args.OIDCToken # "" =>
          \A m \in Messages : ~Contains(m, args.OIDCToken)
    /\ (tokenResp # NilToken /\ tokenResp[1].AccessToken # "") =>
          \A m \in Messages : ~Contains(m, tokenResp[1].AccessToken)

\* the call returned because its context was done
ReturnedOnContext ==
    /\ pc = "done" /\ exchErr # Nil
    /\ \/ Contains(exchErr[1], "context deadline exceeded")
       \/ Contains(exchErr[1], "context canceled")

\* the earlier of the call's own 30-second timeout and the caller's deadline
FirstDeadline == IF ctx.kind = "deadline" /\ ctx.deadline < 30 THEN ctx.deadline ELSE 30

\* C11: every call of ExchangeOIDCForAzureToken eventually returns; when it
\* returns because its context is done, that is after the caller cancelled
\* or no earlier than the first of the 30-second timeout and the caller's
\* deadline, with a nil token and a transport error that wraps the cause,
\* whether it was waiting for the headers or reading the body.
C11_Returns ==
    /\ <>(pc = "done")
    /\ [](ReturnedOnContext =>
            /\ tokenResp = NilToken
            /\ \/ HasPrefix(exchErr[1], "failed to exchange token: ")
               \/ HasPrefix(exchErr[1], "failed to read response body: ")
            /\ IF Contains(exchErr[1], "context canceled")
               THEN ctx.cancelled
               ELSE clock >= FirstDeadline)
    /\ [](provider.kind \in {"hang", "stall"} /\ pc = "done" /\ request # NoRequest
            => ReturnedOnContext)

C11_Witness ==
    /\ pc = "done"
    /\ provider.kind = "stall"
    /\ ctx.kind = "background"
    /\ clock >= 30
    /\ tokenResp = NilToken
    /\ exchErr = <<"failed to read response body: context deadline exceeded">>

\* what the endpoint issues or names for the tenant and client of call i
OwnSubject(i) ==
    conc[i].args.clientID \o "@https://login.microsoftonline.com/"
    \o conc[i].args.tenantID \o "/oauth2/v2.0/token"

\* the request of call i is built from the arguments of call i
OwnRequest(i) ==
    conc[i].request # NoRequest =>
        /\ conc[i].request.form.client_id = conc[i].args.clientID
        /\ conc[i].request.form.client_assertion = conc[i].args.oidcToken
        /\ conc[i].request.form.scope = conc[i].args.scope
        /\ conc[i].request.url = "https://login.microsoftonline.com/"
                                 \o conc[i].args.tenantID \o "/oauth2/v2.0/token"

\* the result of call i is the result of the answer to the request of call i
OwnResult(i) ==
    (conc[i].pc = "done" /\ conc[i].response # NoResponse) =>
        IF conc[i].response.status = 200
        THEN /\ conc[i].exchErr = Nil
             /\ conc[i].tokenResp # NilToken
             /\ conc[i].tokenResp[1].AccessToken = OwnSubject(i)
        ELSE /\ conc[i].tokenResp = NilToken
             /\ conc[i].exchErr =
                   <<"token exchange failed: invalid_client - " \o OwnSubject(i)
                     \o " (trace_id: )">>

====
